---- MODULE Spec2Model ----
(***************************************************************************)
(* PolyInsider data engine (sonar_insider.py): market discovery, the       *)
(* reconnecting WebSocket receive loop, the trade filter, the scorer and   *)
(* the SQLite store (trades with AUTOINCREMENT ids, markets upserted by    *)
(* token_id).                                                              *)
(*                                                                         *)
(* Numbers.  Python floats are modelled as fixed-point decimals that can   *)
(* also be NaN: a float is a record [nan, v].  Prices are counted in       *)
(* 1/PriceScale dollars, sizes in 1/SizeScale shares, notionals in         *)
(* 1/UsdScale dollars and scores in 1/ScoreScale points, so price * size   *)
(* is exact.  Infinities are not modelled.                                 *)
(*                                                                         *)
(* Strings that the code slices or joins (asset ids, questions, alerts)    *)
(* are sequences of pieces of text; an asset id is made of one-character   *)
(* pieces, so that [:16] cuts it where the code does.                      *)
(***************************************************************************)
EXTENDS Integers, Sequences, FiniteSets, TLC

\* ------------------------------------------------------------------ bounds
MaxTrades   == 2     \* rows the trades table may hold
MaxEvents   == 3     \* feed elements delivered over the whole history
MaxAttempts == 2     \* connection attempts per process run
MaxTime     == 10    \* last instant of the clock (seconds)
MaxFrames   == 3     \* frames received on one connection
MaxRestarts == 1     \* times the process is started again
MaxCalls    == 3     \* upsert_market calls in the store specification
MaxScoreCalls == 2   \* calls of score_trade on the same arguments
MaxWatchEvents  == 24 \* feed elements delivered while the watchers poll
MaxDigestEvents == 2  \* feed elements delivered over the digest's hour
MaxSendSecs == 2     \* longest post of a digest (seconds)
MaxHours    == 2     \* digest periods the clock runs through
TicksPerHour == 4    \* readings of the clock in one digest period

\* ------------------------------------------------------- fixed-point units
PriceScale == 1000
SizeScale  == 10
UsdScale   == PriceScale * SizeScale
ScoreScale == 100

\* ------------------------------------------------------------------ config
MIN_TRADE_USD   == 5 * UsdScale
TOP_N_MARKETS   == 20
RECONNECT_DELAY == 5

\* ------------------------------------------------------------------ floats
F(n) == [nan |-> FALSE, v |-> n]
NaN  == [nan |-> TRUE, v |-> 0]
FLt(a, b) == ~a.nan /\ ~b.nan /\ a.v < b.v
FLe(a, b) == ~a.nan /\ ~b.nan /\ a.v <= b.v
FGt(a, b) == ~a.nan /\ ~b.nan /\ a.v > b.v
FGe(a, b) == ~a.nan /\ ~b.nan /\ a.v >= b.v
FMul(a, b) == IF a.nan \/ b.nan THEN NaN ELSE F(a.v * b.v)

\* round(x, 2) of a notional: nearest cent, ties to the even cent
CentUnits == UsdScale \div 100
Round2(x) ==
    IF x.nan THEN NaN
    ELSE LET q == x.v \div CentUnits
             r == x.v % CentUnits
         IN  IF 2 * r > CentUnits \/ (2 * r = CentUnits /\ q % 2 = 1)
             THEN F((q + 1) * CentUnits)
             ELSE F(q * CentUnits)

\* ----------------------------------------------------------------- strings
Take(s, n) == SubSeq(s, 1, IF Len(s) < n THEN Len(s) ELSE n)

Max(a, b) == IF a >= b THEN a ELSE b

\* ------------------------------------------------------------------ scorer
\* mutant: the reasons joined last to first
RECURSIVE Join_Reversed(_)
Join_Reversed(reasons) ==
    IF Len(reasons) <= 1 THEN reasons
    ELSE Join_Reversed(Tail(reasons)) \o <<" | ", Head(reasons)>>

\* " | ".join(reasons): the reasons with the separator between them
RECURSIVE Join(_)
Join(reasons) ==
    IF Len(reasons) <= 1 THEN reasons
    ELSE <<Head(reasons), " | ">> \o Join(Tail(reasons))

\* mutant: the tier thresholds made exclusive
SizeTier_Exclusive(usd_value) ==
    IF FGt(usd_value, F(10000 * UsdScale))
        THEN [add |-> 5 * ScoreScale, reasons |-> <<"WHALE (>$10k)">>]
    ELSE IF FGt(usd_value, F(2000 * UsdScale))
        THEN [add |-> 3 * ScoreScale, reasons |-> <<"Large trade (>$2k)">>]
    ELSE IF FGt(usd_value, F(500 * UsdScale))
        THEN [add |-> (3 * ScoreScale) \div 2, reasons |-> <<"Mid trade (>$500)">>]
    ELSE [add |-> ScoreScale \div 2, reasons |-> <<>>]

SizeTier(usd_value) ==
    IF FGe(usd_value, F(10000 * UsdScale))
        THEN [add |-> 5 * ScoreScale, reasons |-> <<"WHALE (>$10k)">>]
    ELSE IF FGe(usd_value, F(2000 * UsdScale))
        THEN [add |-> 3 * ScoreScale, reasons |-> <<"Large trade (>$2k)">>]
    ELSE IF FGe(usd_value, F(500 * UsdScale))
        THEN [add |-> (3 * ScoreScale) \div 2, reasons |-> <<"Mid trade (>$500)">>]
    ELSE [add |-> ScoreScale \div 2, reasons |-> <<>>]

\* mutant: the price bounds made exclusive
PriceTier_Exclusive(price) ==
    IF FGt(price, F((85 * PriceScale) \div 100))
        THEN [add |-> 2 * ScoreScale, reasons |-> <<"Late-stage sniper (price >=85c)">>]
    ELSE IF FLt(price, F((15 * PriceScale) \div 100))
        THEN [add |-> (3 * ScoreScale) \div 2,
              reasons |-> <<"Low-prob contrarian (price <=15c)">>]
    ELSE [add |-> 0, reasons |-> <<>>]

PriceTier(price) ==
    IF FGe(price, F((85 * PriceScale) \div 100))
        THEN [add |-> 2 * ScoreScale, reasons |-> <<"Late-stage sniper (price >=85c)">>]
    ELSE IF FLe(price, F((15 * PriceScale) \div 100))
        THEN [add |-> (3 * ScoreScale) \div 2,
              reasons |-> <<"Low-prob contrarian (price <=15c)">>]
    ELSE [add |-> 0, reasons |-> <<>>]

\* mutant: round(score) in place of round(score, 2): the nearest whole
\* number of points, ties to the even one
score_trade_RoundToInteger(usd_value, price) ==
    LET size_tier  == SizeTier(usd_value)
        price_tier == PriceTier(price)
        reasons    == size_tier.reasons \o price_tier.reasons
        score      == 0 + size_tier.add + price_tier.add
        q          == score \div ScoreScale
        r          == score % ScoreScale
    IN  [score |-> IF 2 * r > ScoreScale \/ (2 * r = ScoreScale /\ q % 2 = 1)
                   THEN F((q + 1) * ScoreScale) ELSE F(q * ScoreScale),
         alert |-> IF reasons # <<>> THEN Join(reasons) ELSE <<"Standard trade">>,
         base  |-> 0 + size_tier.add]

\* score_trade: the sums are multiples of 0.5, so round(score, 2) leaves them.
\* base is the value of the local score after the size tiers (line 132).
score_trade(usd_value, price) ==
    LET size_tier  == SizeTier(usd_value)
        price_tier == PriceTier(price)
        reasons    == size_tier.reasons \o price_tier.reasons
    IN  [score |-> F(0 + size_tier.add + price_tier.add),
         alert |-> IF reasons # <<>> THEN Join(reasons) ELSE <<"Standard trade">>,
         base  |-> 0 + size_tier.add]

\* ------------------------------------------------------------------- store
\* trades: id INTEGER PRIMARY KEY AUTOINCREMENT.  db = [trades, seq], seq
\* being sqlite_sequence's row for the table (the largest id ever given).
\* A row also carries "arrival", a history field that is no column: the
\* ordinal, over the whole feed, of the element the row was made from.
RECURSIVE MaxId(_)
MaxId(rows) == IF rows = <<>> THEN 0 ELSE Max(Head(rows).id, MaxId(Tail(rows)))

\* mutant: the largest id given so far is handed out again
NextId_NoIncrement(db) == Max(db.seq, MaxId(db.trades))

NextId(db) == Max(db.seq, MaxId(db.trades)) + 1

insert_trade(db, trade) ==
    LET id == NextId(db)
        row == [id |-> id, timestamp |-> trade.timestamp,
                market_id |-> trade.market_id, market_name |-> trade.market_name,
                outcome |-> trade.outcome, price |-> trade.price,
                size |-> trade.size, usd_value |-> trade.usd_value,
                side |-> trade.side, score |-> trade.score, alert |-> trade.alert,
                arrival |-> trade.arrival]
    IN  [trades |-> Append(db.trades, row), seq |-> id]

\* markets: token_id TEXT PRIMARY KEY; the table is the sequence of its rows
HasMarket(markets, token_id) ==
    \E i \in 1..Len(markets) : markets[i].token_id = token_id

\* mutant: ON CONFLICT DO NOTHING, the row of the first call stays
upsert_market_Ignore(markets, token_id, name, question, volume, ts) ==
    IF HasMarket(markets, token_id) THEN markets
    ELSE Append(markets, [token_id |-> token_id, name |-> name,
                          question |-> question, volume_24h |-> volume,
                          last_seen |-> ts])

upsert_market(markets, token_id, name, question, volume, ts) ==
    IF HasMarket(markets, token_id)
    THEN [i \in 1..Len(markets) |->
            IF markets[i].token_id = token_id
            THEN [markets[i] EXCEPT !.name = name, !.volume_24h = volume,
                                    !.last_seen = ts]
            ELSE markets[i]]
    ELSE Append(markets, [token_id |-> token_id, name |-> name,
                          question |-> question, volume_24h |-> volume,
                          last_seen |-> ts])

\* ------------------------------------------------------- JSON field values
\* What event.get(field) can return: nothing (missing, null, "" - all falsy),
\* a number or numeric string, NaN (the literal NaN or the string "nan"),
\* a string float() rejects, or a non-empty list.
Absent == [k |-> "absent", v |-> 0]
Num(n) == [k |-> "num", v |-> n]
NanLit == [k |-> "nan", v |-> 0]
BadStr == [k |-> "badstr", v |-> 0]
AList  == [k |-> "list", v |-> 0]

Truthy(x) == x.k # "absent" /\ ~(x.k = "num" /\ x.v = 0)
PyOr(a, b) == IF Truthy(a) THEN a ELSE b

\* float(x): the exception it raises ("none" when it returns), and its value
FloatExc(x) ==
    CASE x.k = "badstr" -> "ValueError"
      [] x.k = "list"   -> "TypeError"
      [] x.k = "absent" -> "TypeError"
      [] OTHER          -> "none"
PyFloat(x) == IF x.k = "nan" THEN NaN ELSE F(x.v)

\* asset identifiers: a string, nothing, or a JSON integer
NoId      == [k |-> "absent", s |-> <<>>]
StrId(s)  == [k |-> "str", s |-> s]
IntId     == [k |-> "int", s |-> <<>>]
IdTruthy(x) == x.k = "int" \/ (x.k = "str" /\ x.s # <<>>)

\* the caught exceptions of the per-message try (line 205)
CaughtInMessage == {"JSONDecodeError", "ValueError", "KeyError"}
RecognizedTypes == {"price_change", "last_trade_price", "trade"}

\* ------------------------------------------------------ one feed element
\* lines 171, 174-176: what the handler reads from an element
\* mutant: the "type" key is not read when "event_type" is missing
EventType_NoTypeFallback(event) == event.event_type

EventType(event) == IF event.event_type # "" THEN event.event_type ELSE event.type
MarketId(event) ==
    IF IdTruthy(event.asset_id) THEN event.asset_id
    ELSE IF event.market.k = "absent" THEN StrId(<<>>)
    ELSE event.market
PriceRaw(event) == PyOr(PyOr(event.price, event.last_trade_price), Num(0))
SizeRaw(event)  == PyOr(PyOr(event.size, event.amount), Num(0))

\* mutant: a notional of exactly MIN_TRADE_USD is dropped too
Filtered_MinimumExcluded(usd_value, price) ==
    FLe(usd_value, F(MIN_TRADE_USD)) \/ FLe(price, F(0))

\* line 180: TRUE when the element is dropped
Filtered(usd_value, price) == FLt(usd_value, F(MIN_TRADE_USD)) \/ FLe(price, F(0))

\* mutant: a price of exactly 0.5 counts as YES
Outcome_Inclusive(price) == IF FGe(price, F(PriceScale \div 2)) THEN "YES" ELSE "NO"

\* line 190
Outcome(price) == IF FGt(price, F(PriceScale \div 2)) THEN "YES" ELSE "NO"

\* lines 171-198 for one element; stamp is the element's arrival ordinal
ProcessEvent(event, db, name_map, ts, stamp) ==
    IF ~event.obj THEN [db |-> db, exc |-> "AttributeError"]
    ELSE IF EventType(event) \notin RecognizedTypes THEN [db |-> db, exc |-> "none"]
    ELSE
    LET market_id == MarketId(event)
        price_raw == PriceRaw(event)
        size_raw  == SizeRaw(event)
        price     == PyFloat(price_raw)
        size      == PyFloat(size_raw)
        side      == IF event.side = "" THEN "UNKNOWN" ELSE event.side
        usd_value == FMul(price, size)
    IN  IF FloatExc(price_raw) # "none"
            THEN [db |-> db, exc |-> FloatExc(price_raw)]
        ELSE IF FloatExc(size_raw) # "none"
            THEN [db |-> db, exc |-> FloatExc(size_raw)]
        ELSE IF Filtered(usd_value, price)
            THEN [db |-> db, exc |-> "none"]
        ELSE IF market_id.k # "str"
            THEN [db |-> db, exc |-> "TypeError"]
        ELSE
        LET market_name == IF market_id.s \in DOMAIN name_map
                           THEN name_map[market_id.s]
                           ELSE Take(market_id.s, 16)
            scored == score_trade(usd_value, price)
            trade  == [timestamp   |-> ts,
                       market_id   |-> market_id.s,
                       market_name |-> market_name,
                       outcome     |-> Outcome(price),
                       price       |-> price,
                       size        |-> size,
                       usd_value   |-> Round2(usd_value),
                       side        |-> side,
                       score       |-> scored.score,
                       alert       |-> scored.alert,
                       arrival     |-> stamp]
        IN  [db |-> insert_trade(db, trade), exc |-> "none"]

\* mutant: the try is around one element, so a caught exception skips that
\* element only
RECURSIVE ProcessEvents_SkipBadElement(_, _, _, _, _, _)
ProcessEvents_SkipBadElement(events, i, db, name_map, ts, base) ==
    IF i > Len(events) THEN [db |-> db, exc |-> "none"]
    ELSE LET r == ProcessEvent(events[i], db, name_map, ts, base + i)
         IN  IF r.exc \notin (CaughtInMessage \cup {"none"}) THEN r
             ELSE ProcessEvents_SkipBadElement(events, i + 1, r.db, name_map, ts, base)

\* mutant: the elements of a frame handled last to first
RECURSIVE ProcessEvents_Reversed(_, _, _, _, _, _)
ProcessEvents_Reversed(events, i, db, name_map, ts, base) ==
    IF i > Len(events) THEN [db |-> db, exc |-> "none"]
    ELSE LET k == Len(events) + 1 - i
             r == ProcessEvent(events[k], db, name_map, ts, base + k)
         IN  IF r.exc # "none" THEN r
             ELSE ProcessEvents_Reversed(events, i + 1, r.db, name_map, ts, base)

\* the for loop of line 170: elements in order, stopping at the first raise
RECURSIVE ProcessEvents(_, _, _, _, _, _)
ProcessEvents(events, i, db, name_map, ts, base) ==
    IF i > Len(events) THEN [db |-> db, exc |-> "none"]
    ELSE LET r == ProcessEvent(events[i], db, name_map, ts, base + i)
         IN  IF r.exc # "none" THEN r
             ELSE ProcessEvents(events, i + 1, r.db, name_map, ts, base)

\* mutant: a value that is no list is iterated as it is; iterating an object
\* gives its keys, which are strings
EventsOf_NoWrap(raw) ==
    IF raw.isList THEN raw.elems
    ELSE <<[raw.elems[1] EXCEPT !.obj = FALSE]>>

\* lines 166-168: the decoded value, wrapped in a list when it is none.
\* raw.elems is the decoded list, or holds the one decoded value.
EventsOf(raw) == IF ~raw.isList THEN <<raw.elems[1]>> ELSE raw.elems

\* mutant: json.loads failing is not caught by the per-message try
HandleMessage_BadJsonEscapes(raw, db, name_map, ts, base) ==
    IF raw.kind = "ping"
        THEN [db |-> db, reply |-> <<"pong">>, exc |-> "none", escaped |-> FALSE]
    ELSE IF raw.kind = "badjson"
        THEN [db |-> db, reply |-> <<>>, exc |-> "JSONDecodeError", escaped |-> TRUE]
    ELSE LET r == ProcessEvents(EventsOf(raw), 1, db, name_map, ts, base)
         IN  [db |-> r.db, reply |-> <<>>, exc |-> r.exc,
              escaped |-> r.exc \notin (CaughtInMessage \cup {"none"})]

\* mutant: "ping" is not told apart and goes to json.loads, which rejects it
HandleMessage_PingParsed(raw, db, name_map, ts, base) ==
    IF raw.kind = "ping" \/ raw.kind = "badjson"
        THEN [db |-> db, reply |-> <<>>, exc |-> "JSONDecodeError", escaped |-> FALSE]
    ELSE LET r == ProcessEvents(EventsOf(raw), 1, db, name_map, ts, base)
         IN  [db |-> r.db, reply |-> <<>>, exc |-> r.exc,
              escaped |-> r.exc \notin (CaughtInMessage \cup {"none"})]

\* lines 161-206 for one raw frame.  A frame is a ping, text json.loads
\* rejects, or a JSON value: elems is the list it decodes to, or the single
\* value when it is no list (isList = FALSE), which line 168 wraps.
\* escaped: an exception left the per-message try and ends the connection.
HandleMessage(raw, db, name_map, ts, base) ==
    IF raw.kind = "ping"
        THEN [db |-> db, reply |-> <<"pong">>, exc |-> "none", escaped |-> FALSE]
    ELSE IF raw.kind = "badjson"
        THEN [db |-> db, reply |-> <<>>, exc |-> "JSONDecodeError", escaped |-> FALSE]
    ELSE LET r == ProcessEvents(EventsOf(raw), 1, db, name_map, ts, base)
         IN  [db |-> r.db, reply |-> <<>>, exc |-> r.exc,
              escaped |-> r.exc \notin (CaughtInMessage \cup {"none"})]

\* -------------------------------------------------------- market discovery
\* m.get("clobTokenIds", []) iterated by line 108: a list gives its items, a
\* string gives its characters, a missing key gives nothing, null raises
ClobList(toks) == [k |-> "list", toks |-> toks, text |-> <<>>]
ClobStr(text)  == [k |-> "str", toks |-> <<>>, text |-> text]
ClobAbsent     == [k |-> "absent", toks |-> <<>>, text |-> <<>>]
ClobNull       == [k |-> "null", toks |-> <<>>, text |-> <<>>]

Tokens(clob) ==
    CASE clob.k = "list" -> clob.toks
      [] clob.k = "str"  -> [i \in 1..Len(clob.text) |-> <<clob.text[i]>>]
      [] OTHER           -> <<>>

UnknownMarket == <<"Unknown Market">>

\* lines 108-111 for the tokens of one market
RECURSIVE RegisterTokens(_, _, _, _, _, _)
RegisterTokens(toks, i, acc, question, volume, ts) ==
    IF i > Len(toks) THEN acc
    ELSE LET token == toks[i]
             nm    == [t \in DOMAIN acc.name_map \cup {token} |->
                          IF t = token THEN question ELSE acc.name_map[t]]
         IN  RegisterTokens(toks, i + 1,
                 [acc EXCEPT !.token_ids = Append(@, token),
                             !.name_map  = nm,
                             !.markets   = upsert_market(@, token, Take(question, 80),
                                                         question, volume, ts)],
                 question, volume, ts)

\* lines 105-111: the loop over markets[:TOP_N_MARKETS]
RECURSIVE RegisterMarkets(_, _, _, _)
RegisterMarkets(ms, i, acc, ts) ==
    IF i > Len(ms) \/ acc.exc # "none" THEN acc
    ELSE LET m        == ms[i]
             question == IF m.question.k = "absent" THEN UnknownMarket
                         ELSE m.question.s
             vol_raw  == PyOr(PyOr(m.volume24hr, m.volume), Num(0))
         IN  IF FloatExc(vol_raw) # "none"
                 THEN [acc EXCEPT !.exc = FloatExc(vol_raw)]
             ELSE IF m.clobTokenIds.k = "null"
                 THEN [acc EXCEPT !.exc = "TypeError"]
             ELSE RegisterMarkets(ms, i + 1,
                      RegisterTokens(Tokens(m.clobTokenIds), 1, acc, question,
                                     PyFloat(vol_raw), ts),
                      ts)

\* fetch_top_markets.  resp is what the listing endpoint answered: ok = FALSE
\* when the request or resp.json() raises.  The upserts made before an
\* exception are committed, so markets is returned in every case.
fetch_top_markets(resp, markets, ts) ==
    LET start == [token_ids |-> <<>>, name_map |-> <<>>, markets |-> markets,
                  exc |-> "none"]
    IN  IF ~resp.ok THEN [start EXCEPT !.exc = "ClientError"]
        ELSE RegisterMarkets(Take(resp.markets, TOP_N_MARKETS), 1, start, ts)

\* ------------------------------------------------------------------- state
VARIABLES
    pc,                \* where run_sonar is: "discovering", "connecting",
                       \* "subscribed", "disconnected" (about to sleep), "crashed"
    token_ids,         \* run_sonar's locals, set by line 145
    name_map,
    subscribe_payload, \* line 147: the asset ids the payload lists
    ws_sent,           \* frames sent on the current connection
    trades,            \* insider.db: the trades table,
    trade_seq,         \*   its sqlite_sequence entry,
    markets,           \*   and the markets table
    now,               \* the clock, in seconds
    \* history variables
    conns,             \* this run's connection attempts: "ok" or "fail"
    attempt_at,        \*   and the clock at each
    subs,              \* [payload, name_map] used by this run's connections
    discoveries,       \* calls of fetch_top_markets in this run
    listing,           \* the listing endpoint's answer to the latest of them
    evCount,           \* feed elements delivered so far
    last,              \* the frame handled last, and what came of it
    stream,            \* tags of the frames of the current connection
    connBase,          \* Len(trades) when the current connection opened
    restarts,          \* times the process was started again
    cancelled,         \* whether run_sonar's task was cancelled
    calls,             \* the upsert_market calls made directly on the store
    sc,                \* a call of score_trade: its arguments and its result
    tg,                \* telegram_watcher.py: its globals and its position
    dc                 \* discord_sonar_watcher.py: its globals and its position

vars == <<pc, token_ids, name_map, subscribe_payload, ws_sent, trades, trade_seq,
          markets, now, conns, attempt_at, subs, discoveries, listing, evCount, last,
          stream, connBase, restarts, cancelled, calls, sc, tg, dc>>

storeVars == <<trades, trade_seq, markets>>
runVars   == <<token_ids, name_map, subscribe_payload>>
connHist  == <<conns, attempt_at, subs>>
libVars   == <<calls, sc>>
watchVars == <<tg, dc>>

\* ------------------------------------------------------------------ inputs
T1     == <<"T", "1">>
T2     == <<"T", "2">>
LongId == [i \in 1..17 |-> "9"]
Q1     == <<"Will it rain?">>
Q2     == <<"Will it snow?">>

Ev(et, ty, asset, price, size, side) ==
    [obj |-> TRUE, event_type |-> et, type |-> ty, asset_id |-> asset,
     market |-> NoId, price |-> price, last_trade_price |-> Absent,
     size |-> size, amount |-> Absent, side |-> side]

NonObject == [Ev("", "", NoId, Absent, Absent, "") EXCEPT !.obj = FALSE]

\* prices 0.01, 0.90 and -0.01; sizes 500.0, 499.0 and -500.0: the notionals
\* are 5.00 (the minimum), 4.99 and 450.00
AtMin     == Ev("trade", "", StrId(T1), Num(10), Num(5000), "BUY")
CentBelow == Ev("trade", "", StrId(T1), Num(10), Num(4990), "BUY")
Above     == Ev("price_change", "", StrId(T2), Num(900), Num(5000), "SELL")
ByType    == Ev("", "trade", StrId(LongId), Num(10), Num(5000), "")
Negative  == Ev("trade", "", StrId(T1), Num(-10), Num(-5000), "BUY")
Book      == Ev("book", "", StrId(T1), Num(900), Num(5000), "BUY")
NanPrice  == Ev("trade", "", StrId(T1), NanLit, Num(5000), "BUY")
BadPrice  == Ev("trade", "", StrId(T1), BadStr, Num(5000), "BUY")
IntAsset  == Ev("trade", "", IntId, Num(10), Num(5000), "BUY")
\* {type: "trade", asset_id: "T1", price: 0.90, size: 12000, side: "BUY"}
Whale     == Ev("", "trade", StrId(T1), Num(900), Num(120000), "BUY")

\* price 1.50, size 10.0
OverOne   == Ev("trade", "", StrId(T1), Num(1500), Num(100), "BUY")

\* price updates: one without a size, one with price NaN and size -500.0
NoSize     == Ev("price_change", "", StrId(T1), Num(900), Absent, "SELL")
NanNegSize == Ev("price_change", "", StrId(T1), NanLit, Num(-5000), "SELL")

\* an order-book element whose price is no number
BookBad    == Ev("", "book", StrId(T1), BadStr, Num(5000), "BUY")

\* prices 0.500 and 0.501, size 10.0, sold on T2 and bought on T1
Half       == Ev("trade", "", StrId(T2), Num(500), Num(100), "SELL")
JustOver   == Ev("trade", "", StrId(T1), Num(501), Num(100), "BUY")

\* price 0.573, size 17452.0: a notional of 9999.996
NearWhale  == Ev("trade", "", StrId(T1), Num(573), Num(174520), "BUY")

Events == {AtMin, CentBelow, Above, ByType, Negative, Book, NanPrice, BadPrice,
           IntAsset, NonObject, Whale, OverOne, NoSize, NanNegSize, BookBad,
           Half, JustOver, NearWhale}

Ping    == [kind |-> "ping", isList |-> FALSE, elems |-> <<>>]
BadJson == [kind |-> "badjson", isList |-> FALSE, elems |-> <<>>]
Single(e)   == [kind |-> "json", isList |-> FALSE, elems |-> <<e>>]
Batch(es)   == [kind |-> "json", isList |-> TRUE, elems |-> es]

Frames ==
    {Ping, BadJson, Batch(<<>>)}
    \cup {Single(e) : e \in Events}
    \cup {Batch(<<AtMin, Above>>), Batch(<<CentBelow, AtMin>>),
          Batch(<<BadPrice, AtMin>>), Batch(<<Above, NonObject>>),
          Batch(<<AtMin, BadPrice>>)}

\* the frames of the specification that also lets connections fail and the
\* process restart
LifeFrames == {BadJson, Single(AtMin), Single(NonObject)}

Mkt(question, vol, clob) ==
    [question |-> question, volume24hr |-> vol, volume |-> Absent,
     clobTokenIds |-> clob]

\* the endpoint failing, an empty listing, a listing of one market, and one
\* whose second market has null for its token list
Responses ==
    { [ok |-> FALSE, markets |-> <<>>],
      [ok |-> TRUE, markets |-> <<>>],
      [ok |-> TRUE, markets |-> <<Mkt(StrId(Q1), Num(100), ClobList(<<T1, T2>>))>>],
      [ok |-> TRUE, markets |-> <<Mkt(StrId(Q1), Num(100), ClobList(<<T2>>)),
                                  Mkt(StrId(Q2), Num(50), ClobNull)>>] }

NoListing == [ok |-> FALSE, markets |-> <<>>]

\* listings for the specification of discovery alone.  Market i of a long
\* listing has the question "Market ii" and the tokens Mii-0 and Mii-1.
Digit == <<"0", "1", "2", "3", "4", "5", "6", "7", "8", "9">>
T3 == <<"T", "3">>
Tok(i, j) == <<"M", Digit[(i \div 10) + 1], Digit[(i % 10) + 1], "-", Digit[j + 1]>>
Qn(i) == <<"Market ", Digit[(i \div 10) + 1], Digit[(i % 10) + 1]>>

\* the text ["T1", "T2"], character by character
EncodedT1T2 == <<"[", "\"", "T", "1", "\"", ",", " ", "\"", "T", "2", "\"", "]">>

\* n markets of two tokens each, the first one without its clobTokenIds key
\* when firstBare
LongListing(n, firstBare) ==
    [ok |-> TRUE,
     markets |-> [i \in 1..n |->
                    IF i = 1 /\ firstBare THEN Mkt(StrId(Qn(i)), Num(1000 - i), ClobAbsent)
                    ELSE Mkt(StrId(Qn(i)), Num(1000 - i),
                             ClobList(<<Tok(i, 0), Tok(i, 1)>>))]]

Listings ==
    Responses \cup
    { [ok |-> TRUE, markets |-> <<Mkt(StrId(Q1), Num(100), ClobStr(EncodedT1T2))>>],
      [ok |-> TRUE, markets |-> <<Mkt(StrId(Q2), Num(200), ClobList(<<T1>>)),
                                  Mkt(NoId, Absent, ClobAbsent)>>],
      [ok |-> TRUE, markets |-> <<Mkt(StrId(Q1), Num(100), ClobList(<<T1, T2>>)),
                                  Mkt(StrId(Q2), Num(50), ClobList(<<>>))>>],
      [ok |-> TRUE, markets |-> <<Mkt(StrId(Q2), Num(50), ClobStr(<<"n", "/", "a">>)),
                                  Mkt(StrId(Q1), Num(100), ClobList(<<T1, T2>>))>>],
      [ok |-> TRUE, markets |-> <<Mkt(StrId(Q1), Num(100), ClobList(<<T1, T2, T3>>))>>],
      LongListing(TOP_N_MARKETS, FALSE),
      LongListing(TOP_N_MARKETS + 1, FALSE),
      LongListing(TOP_N_MARKETS + 1, TRUE) }

NoCall == [usd_value |-> F(0), price |-> F(0), done |-> FALSE, n |-> 0,
           out   |-> [score |-> F(0), alert |-> <<>>, base |-> 0],
           first |-> [score |-> F(0), alert |-> <<>>, base |-> 0]]

\* telegram_watcher.py lines 25-26 before main runs; "counted" keeps, for each
\* digest built, the ids of the rows its COUNT(*) counted
TgOff == [pc |-> "off", last_seen_id |-> 0, last_digest |-> 0, seed |-> 0,
          sent |-> <<>>, counted |-> <<>>]

\* discord_sonar_watcher.py line 34 before main runs
DcOff == [pc |-> "off", last_seen_id |-> 0, seed |-> 0, sent |-> <<>>]

NoFrame == [raw |-> Ping, base |-> 0, before |-> 0, escaped |-> FALSE,
            handled |-> FALSE]

\* ------------------------------------------------------------------- tags
\* a frame holding one JSON object that is a recognized event with numeric
\* price > 0 and size, a notional of at least MIN_TRADE_USD and a string id
IsAcceptable(e) ==
    /\ e.obj
    /\ EventType(e) \in RecognizedTypes
    /\ PriceRaw(e).k = "num" /\ SizeRaw(e).k = "num"
    /\ PriceRaw(e).v > 0
    /\ PriceRaw(e).v * SizeRaw(e).v >= MIN_TRADE_USD
    /\ MarketId(e).k = "str"

Tag(raw) ==
    CASE raw.kind = "ping"    -> "ping"
      [] raw.kind = "badjson" -> "badjson"
      [] raw.kind = "json" /\ ~raw.isList /\ IsAcceptable(raw.elems[1]) -> "valid"
      [] OTHER -> "other"

\* -------------------------------------------------------------------- Init
Init ==
    /\ pc = "discovering"
    /\ token_ids = <<>>
    /\ name_map = <<>>
    /\ subscribe_payload = <<>>
    /\ ws_sent = <<>>
    /\ trades = <<>>
    /\ trade_seq = 0
    /\ markets = <<>>
    /\ now = 0
    /\ conns = <<>>
    /\ attempt_at = <<>>
    /\ subs = {}
    /\ discoveries = 0
    /\ listing = NoListing
    /\ evCount = 0
    /\ last = NoFrame
    /\ stream = <<>>
    /\ connBase = 0
    /\ restarts = 0
    /\ cancelled = FALSE
    /\ calls = <<>>
    /\ tg = TgOff
    /\ dc = DcOff
    /\ sc = NoCall

\* ----------------------------------------------------------------- actions
\* lines 145-150: discovery, once, before the loop.  An exception is not
\* caught anywhere: asyncio.run re-raises it and the process ends.
Discover(responses) ==
    /\ pc = "discovering"
    /\ \E resp \in responses :
         LET r == fetch_top_markets(resp, markets, now)
         IN  /\ listing' = resp
             /\ markets' = r.markets
             /\ IF r.exc = "none"
                THEN /\ pc' = "connecting"
                     /\ token_ids' = r.token_ids
                     /\ name_map' = r.name_map
                     /\ subscribe_payload' = r.token_ids
                ELSE /\ pc' = "crashed"
                     /\ UNCHANGED runVars
    /\ discoveries' = discoveries + 1
    /\ UNCHANGED <<ws_sent, trades, trade_seq, now, connHist, evCount, last,
                   stream, connBase, restarts, cancelled, libVars, watchVars>>

\* lines 154-157: connect and subscribe
ConnectOk ==
    /\ pc = "connecting"
    /\ Len(conns) < MaxAttempts
    /\ pc' = "subscribed"
    /\ ws_sent' = <<subscribe_payload>>
    /\ conns' = Append(conns, "ok")
    /\ attempt_at' = Append(attempt_at, now)
    /\ subs' = subs \cup {[payload |-> subscribe_payload, name_map |-> name_map]}
    /\ last' = NoFrame
    /\ stream' = <<>>
    /\ connBase' = Len(trades)
    /\ UNCHANGED <<runVars, storeVars, now, discoveries, listing, evCount, restarts, cancelled, libVars, watchVars>>

\* lines 155-156 raising (refused, handshake failure, send on a dead socket):
\* caught by line 208 or line 211
ConnectFail ==
    /\ pc = "connecting"
    /\ Len(conns) < MaxAttempts
    /\ pc' = "disconnected"
    /\ ws_sent' = <<>>
    /\ conns' = Append(conns, "fail")
    /\ attempt_at' = Append(attempt_at, now)
    /\ last' = NoFrame
    /\ stream' = <<>>
    /\ connBase' = Len(trades)
    /\ UNCHANGED <<runVars, storeVars, now, subs, discoveries, listing, evCount, restarts, cancelled, libVars, watchVars>>

\* lines 159-206: one frame.  An exception the inner try does not catch is
\* caught by line 211 and ends the connection.
ReceiveUpTo(frames, maxEvents, maxTrades) ==
    /\ pc = "subscribed"
    /\ \E raw \in frames :
         /\ Len(stream) < MaxFrames
         /\ evCount + Len(raw.elems) <= maxEvents
         /\ Len(trades) + Len(raw.elems) <= maxTrades
         /\ LET r == HandleMessage(raw, [trades |-> trades, seq |-> trade_seq],
                                   name_map, now, evCount)
            IN  /\ trades' = r.db.trades
                /\ trade_seq' = r.db.seq
                /\ ws_sent' = ws_sent \o r.reply
                /\ pc' = IF r.escaped THEN "disconnected" ELSE "subscribed"
                /\ last' = [raw |-> raw, base |-> evCount, before |-> Len(trades),
                            escaped |-> r.escaped, handled |-> TRUE]
         /\ evCount' = evCount + Len(raw.elems)
         /\ stream' = Append(stream, Tag(raw))
    /\ UNCHANGED <<runVars, markets, now, connHist, discoveries, listing, connBase, restarts, cancelled, libVars, watchVars>>

Receive(frames) == ReceiveUpTo(frames, MaxEvents, MaxTrades)

\* the iteration of line 159 raising ConnectionClosedError or OSError
ConnectionLost ==
    /\ pc = "subscribed"
    /\ pc' = "disconnected"
    /\ UNCHANGED <<runVars, ws_sent, storeVars, now, connHist, discoveries, listing,
                   evCount, last, stream, connBase, restarts, cancelled, libVars, watchVars>>

\* a close with code 1000 or 1001 ends the iteration of line 159 without an
\* exception: the with block exits and the while loop starts over
CleanClose ==
    /\ pc = "subscribed"
    /\ pc' = "connecting"
    /\ UNCHANGED <<runVars, ws_sent, storeVars, now, connHist, discoveries, listing,
                   evCount, last, stream, connBase, restarts, cancelled, libVars, watchVars>>

\* mutant: the next attempt is made without waiting
Sleep_NoDelay ==
    /\ pc = "disconnected"
    /\ now + RECONNECT_DELAY <= MaxTime
    /\ now' = now
    /\ pc' = "connecting"
    /\ UNCHANGED <<runVars, ws_sent, storeVars, connHist, discoveries, listing, evCount,
                   last, stream, connBase, restarts, cancelled, libVars, watchVars>>

\* mutant: the except clauses end run_sonar in place of sleeping
Sleep_GiveUp ==
    /\ pc = "disconnected"
    /\ pc' = "crashed"
    /\ UNCHANGED <<runVars, ws_sent, storeVars, now, connHist, discoveries, listing,
                   evCount, last, stream, connBase, restarts, cancelled, libVars, watchVars>>

\* lines 210 and 213
Sleep ==
    /\ pc = "disconnected"
    /\ now + RECONNECT_DELAY <= MaxTime
    /\ now' = now + RECONNECT_DELAY
    /\ pc' = "connecting"
    /\ UNCHANGED <<runVars, ws_sent, storeVars, connHist, discoveries, listing, evCount,
                   last, stream, connBase, restarts, cancelled, libVars, watchVars>>

\* the process is stopped and started again (lines 216-219): insider.db
\* stays, init_db creates nothing that exists, run_sonar starts over
Restart ==
    /\ pc \in {"connecting", "subscribed", "disconnected", "crashed"}
    /\ restarts < MaxRestarts
    /\ restarts' = restarts + 1
    /\ cancelled' = FALSE
    /\ pc' = "discovering"
    /\ token_ids' = <<>>
    /\ name_map' = <<>>
    /\ subscribe_payload' = <<>>
    /\ ws_sent' = <<>>
    /\ conns' = <<>>
    /\ attempt_at' = <<>>
    /\ subs' = {}
    /\ discoveries' = 0
    /\ listing' = NoListing
    /\ last' = NoFrame
    /\ stream' = <<>>
    /\ connBase' = Len(trades)
    /\ UNCHANGED <<storeVars, now, evCount, libVars, watchVars>>

\* Spec: every action, over the frames of LifeFrames
Next ==
    \/ Discover(Responses)
    \/ ConnectOk
    \/ ConnectFail
    \/ Receive(LifeFrames)
    \/ ConnectionLost
    \/ CleanClose
    \/ Sleep
    \/ Restart

Spec == Init /\ [][Next]_vars

\* SpecFeed: a feed that never fails by itself, over all the frames of
\* Frames; a connection ends only when the handler lets an exception out
NextFeed ==
    \/ Discover(Responses)
    \/ ConnectOk
    \/ Receive(Frames)
    \/ Sleep

SpecFeed == Init /\ [][NextFeed]_vars

\* line 198 raising sqlite3.OperationalError (database locked, disk full) on
\* the element of a frame: the per-message try does not catch it, line 211
\* does, and nothing is stored
StoreError ==
    /\ pc = "subscribed"
    /\ \E raw \in LifeFrames :
         /\ Tag(raw) = "valid"
         /\ Len(stream) < MaxFrames
         /\ evCount + Len(raw.elems) <= MaxEvents
         /\ pc' = "disconnected"
         /\ last' = [raw |-> raw, base |-> evCount, before |-> Len(trades),
                     escaped |-> TRUE, handled |-> TRUE]
         /\ evCount' = evCount + Len(raw.elems)
         /\ stream' = Append(stream, Tag(raw))
    /\ UNCHANGED <<runVars, ws_sent, storeVars, now, connHist, discoveries, listing,
                   connBase, restarts, cancelled, libVars, watchVars>>

\* SpecLive: a process that is never stopped from outside, on a store that
\* may fail.  asyncio.sleep returns when its delay is over, and
\* websockets.connect either opens the connection or raises (its opening
\* handshake has a timeout), which is what the fairness conditions say.
Attempt == ConnectOk \/ ConnectFail

NextLive ==
    \/ Discover(Responses)
    \/ ConnectOk
    \/ ConnectFail
    \/ Receive(LifeFrames)
    \/ StoreError
    \/ ConnectionLost
    \/ CleanClose
    \/ Sleep

SpecLive == Init /\ [][NextLive]_vars /\ WF_vars(Sleep) /\ WF_vars(Attempt)

\* mutant: CancelledError is caught by line 211 like any other exception
Cancel_CaughtAsError ==
    /\ pc \in {"discovering", "connecting", "subscribed", "disconnected"}
    /\ ~cancelled
    /\ cancelled' = TRUE
    /\ pc' = IF pc = "discovering" THEN "cancelled" ELSE "disconnected"
    /\ UNCHANGED <<runVars, ws_sent, storeVars, now, connHist, discoveries, listing,
                   evCount, last, stream, connBase, restarts, libVars, watchVars>>

\* the task running run_sonar is cancelled (task.cancel(), or asyncio.run
\* handling an interrupt).  CancelledError is raised by the await the
\* coroutine is suspended in: the request of discovery, the connect, the
\* wait for the next frame (line 159) or the sleep (lines 210, 213).  It is
\* no Exception, so neither line 208 nor line 211 catches it, and it leaves
\* run_sonar.  The handling of a frame (lines 161-206) has no await but the
\* pong, so it is never cut short.
Cancel ==
    /\ pc \in {"discovering", "connecting", "subscribed", "disconnected"}
    /\ ~cancelled
    /\ cancelled' = TRUE
    /\ pc' = "cancelled"
    /\ UNCHANGED <<runVars, ws_sent, storeVars, now, connHist, discoveries, listing,
                   evCount, last, stream, connBase, restarts, libVars, watchVars>>

\* SpecCancel: the loop with a supervisor that may cancel it at any await
NextCancel ==
    \/ Discover(Responses)
    \/ ConnectOk
    \/ ConnectFail
    \/ Receive(LifeFrames)
    \/ ConnectionLost
    \/ CleanClose
    \/ Sleep
    \/ Cancel

SpecCancel == Init /\ [][NextCancel]_vars

\* SpecDiscover: discovery alone, over all of Listings, the process being
\* started again on the markets table the run before left
NextDiscover ==
    \/ Discover(Listings)
    \/ Restart

SpecDiscover == Init /\ [][NextDiscover]_vars

\* ------------------------------------------------- the store, called directly
\* SpecStore: any sequence of upsert_market calls; datetime.utcnow() of line
\* 83 reads the clock, which has moved on since the call before or has not
ingestVars == <<pc, runVars, ws_sent, trades, trade_seq, connHist, discoveries, listing,
                evCount, last, stream, connBase, restarts, cancelled>>

UpsertCall ==
    /\ Len(calls) < MaxCalls
    /\ \E token_id \in {T1, T2}, question \in {Q1, Q2}, volume \in {100, 200},
          elapsed \in {0, 1} :
         /\ now + elapsed <= MaxTime
         /\ now' = now + elapsed
         /\ markets' = upsert_market(markets, token_id, Take(question, 80),
                                     question, F(volume), now')
         /\ calls' = Append(calls, [token_id |-> token_id,
                                    name |-> Take(question, 80),
                                    question |-> question,
                                    volume |-> F(volume), ts |-> now'])
    /\ UNCHANGED <<ingestVars, sc, watchVars>>

NextStore == UpsertCall

SpecStore == Init /\ [][NextStore]_vars

\* ------------------------------------------------ the scorer, called directly
\* SpecScore: score_trade called on arguments around every threshold, and
\* called again on the same arguments; sc.first keeps what the first call
\* returned and sc.out what the latest did
UsdInputs ==
    {NaN} \cup
    {F(c * CentUnits) : c \in {0, 499, 500, 49999, 50000, 50001, 199999, 200000,
                               200001, 999999, 1000000, 1000001, 1080000,
                               2499999, 2500000, 2500001}}

PriceInputs ==
    {NaN} \cup
    {F(p) : p \in {1, 149, 150, 151, 300, 449, 450, 500, 550, 551, 700, 849,
                   850, 851, 900, 1000}}

InitScore ==
    /\ pc = "discovering"
    /\ token_ids = <<>>
    /\ name_map = <<>>
    /\ subscribe_payload = <<>>
    /\ ws_sent = <<>>
    /\ trades = <<>>
    /\ trade_seq = 0
    /\ markets = <<>>
    /\ now = 0
    /\ conns = <<>>
    /\ attempt_at = <<>>
    /\ subs = {}
    /\ discoveries = 0
    /\ listing = NoListing
    /\ evCount = 0
    /\ last = NoFrame
    /\ stream = <<>>
    /\ connBase = 0
    /\ restarts = 0
    /\ cancelled = FALSE
    /\ calls = <<>>
    /\ tg = TgOff
    /\ dc = DcOff
    /\ \E u \in UsdInputs, p \in PriceInputs :
         sc = [NoCall EXCEPT !.usd_value = u, !.price = p]

Score ==
    /\ sc.n < MaxScoreCalls
    /\ LET out == score_trade(sc.usd_value, sc.price)
       IN  sc' = [sc EXCEPT !.done = TRUE, !.n = @ + 1, !.out = out,
                            !.first = IF sc.n = 0 THEN out ELSE @]
    /\ UNCHANGED <<ingestVars, markets, now, calls, watchVars>>

NextScore == Score

SpecScore == InitScore /\ [][NextScore]_vars

\* ------------------------------------------------------------ the watchers
\* telegram_watcher.py and discord_sonar_watcher.py: two more processes, which
\* read the trades table the ingestor writes.  Both files give MIN_SCORE and
\* MIN_USD the same values.
MIN_SCORE      == 3 * ScoreScale
MIN_USD        == 500 * UsdScale
DIGEST_SECS    == 3600

\* telegram_watcher.py line 90: LIMIT 20
POLL_LIMIT == 20

\* timedelta.seconds: the part of a difference that is less than a day
DaySecs == 86400

\* every variable of the ingestor and of the direct library calls; the
\* watchers touch none of them
sonarVars == <<ingestVars, markets, calls, sc>>

\* WHERE score>=? AND usd_value>=? against (MIN_SCORE, MIN_USD); a NULL column
\* (a NaN that was bound) compares false
Qualifies(row) == FGe(row.score, F(MIN_SCORE)) /\ FGe(row.usd_value, F(MIN_USD))

\* mutant: the row last_seen_id names is selected again
SelectNew_Inclusive(table, last_seen_id) ==
    SelectSeq(table, LAMBDA row : row.id >= last_seen_id /\ Qualifies(row))

\* SELECT * FROM trades WHERE id>? AND score>=? AND usd_value>=? ORDER BY id ASC
\* (the table is kept in id order: ids are given in increasing order)
SelectNew(table, last_seen_id) ==
    SelectSeq(table, LAMBDA row : row.id > last_seen_id /\ Qualifies(row))

Ids(rows) == [i \in 1..Len(rows) |-> rows[i].id]

\* mutant: last_seen_id moves to the newest qualifying row, returned or not
poll_AdvanceToNewest(table, last_seen_id) ==
    LET all  == SelectNew(table, last_seen_id)
        rows == Take(all, POLL_LIMIT)
    IN  [rows |-> rows,
         last_seen_id |-> IF all # <<>> THEN all[Len(all)].id ELSE last_seen_id]

\* telegram_watcher.py lines 85-95
poll(table, last_seen_id) ==
    LET rows == Take(SelectNew(table, last_seen_id), POLL_LIMIT)
    IN  [rows |-> rows,
         last_seen_id |-> IF rows # <<>> THEN rows[Len(rows)].id ELSE last_seen_id]

\* discord_sonar_watcher.py lines 90-110
poll_new_trades(table, last_seen_id) ==
    LET rows == SelectNew(table, last_seen_id)
    IN  [rows |-> rows,
         last_seen_id |-> IF rows # <<>> THEN rows[Len(rows)].id ELSE last_seen_id]

\* telegram_watcher.py lines 25-26 and 97-111: the module's globals, then main
\* up to its loop.  SELECT COALESCE(MAX(id),0) FROM trades seeds last_seen_id.
TgStart ==
    /\ tg.pc = "off"
    /\ LET seed == MaxId(trades)
       IN  tg' = [tg EXCEPT !.pc = "poll", !.last_seen_id = seed, !.seed = seed,
                            !.last_digest = now]
    /\ UNCHANGED <<sonarVars, now, dc>>

\* lines 114-117: poll, and every row it returned handed to send_message in
\* the order returned.  build_alert reads columns that are never NULL in a
\* row the query selects, and send_message catches whatever the post raises.
TgPoll ==
    /\ tg.pc = "poll"
    /\ LET r == poll(trades, tg.last_seen_id)
       IN  tg' = [tg EXCEPT !.pc = "check", !.last_seen_id = r.last_seen_id,
                            !.sent = @ \o Ids(r.rows)]
    /\ UNCHANGED <<sonarVars, now, dc>>

\* line 118
DigestDue == ((now - tg.last_digest) % DaySecs) >= DIGEST_SECS

\* line 118 false: on to the sleep of line 124
TgNoDigest ==
    /\ tg.pc = "check"
    /\ ~DigestDue
    /\ tg' = [tg EXCEPT !.pc = "sleep"]
    /\ UNCHANGED <<sonarVars, now, dc>>

\* build_digest line 70: SELECT COUNT(*) FROM trades WHERE timestamp>=?
CountedSince(table, since) ==
    {table[i].id : i \in {j \in 1..Len(table) : table[j].timestamp >= since}}

\* line 119, first half: build_digest(last_digest) reads the table
TgDigestQuery ==
    /\ tg.pc = "check"
    /\ DigestDue
    /\ tg' = [tg EXCEPT !.pc = "sending",
                        !.counted = Append(@, CountedSince(trades, tg.last_digest))]
    /\ UNCHANGED <<sonarVars, now, dc>>

\* the time send_message's post takes, in seconds
SendSecs == 1..MaxSendSecs

\* lines 119-121, second half: send_message posts the digest, and once it has
\* returned last_digest = datetime.utcnow()
TgDigestSent ==
    /\ tg.pc = "sending"
    /\ \E took \in SendSecs :
         /\ now' = now + took
         /\ tg' = [tg EXCEPT !.pc = "sleep", !.last_digest = now + took]
    /\ UNCHANGED <<sonarVars, dc>>

\* line 124: time.sleep(CHECK_INTERVAL) returns.  The time it took passes by
\* Elapse; the model does not tie the two, so that it has every timed run.
TgSleep ==
    /\ tg.pc = "sleep"
    /\ tg' = [tg EXCEPT !.pc = "poll"]
    /\ UNCHANGED <<sonarVars, now, dc>>

\* discord_sonar_watcher.py lines 34 and 154-171: MAX(id) or 0 seeds last_seen_id
DcStart ==
    /\ dc.pc = "off"
    /\ LET seed == MaxId(trades)
       IN  dc' = [dc EXCEPT !.pc = "poll", !.last_seen_id = seed, !.seed = seed]
    /\ UNCHANGED <<sonarVars, now, tg>>

\* lines 175-183: poll_new_trades, every row handed to send_discord_alert, and
\* the hourly digest, which changes nothing the model keeps
DcPoll ==
    /\ dc.pc = "poll"
    /\ LET r == poll_new_trades(trades, dc.last_seen_id)
       IN  dc' = [dc EXCEPT !.pc = "sleep", !.last_seen_id = r.last_seen_id,
                            !.sent = @ \o Ids(r.rows)]
    /\ UNCHANGED <<sonarVars, now, tg>>

\* line 188
DcSleep ==
    /\ dc.pc = "sleep"
    /\ dc' = [dc EXCEPT !.pc = "poll"]
    /\ UNCHANGED <<sonarVars, now, tg>>

\* the clock every datetime.utcnow() reads moves on; it is read at
\* TicksPerHour instants of a digest period
ClockStep == DIGEST_SECS \div TicksPerHour

Elapse(maxTime) ==
    /\ now + ClockStep <= maxTime
    /\ now' = now + ClockStep
    /\ UNCHANGED <<sonarVars, tg, dc>>

\* the listing of the watched runs
WatchListings ==
    {[ok |-> TRUE, markets |-> <<Mkt(StrId(Q1), Num(100), ClobList(<<T1, T2>>))>>]}

\* one message of 22 trades: 21 a watcher alerts on and, in the middle, one
\* it does not
ManyWhales == Batch([i \in 1..22 |-> IF i = 11 THEN AtMin ELSE Whale])

WatchFrames == {Single(Whale), ManyWhales}

\* SpecWatch: the ingestor on one connection and both watchers polling; each
\* watcher's loop goes round for ever (its calls return)
NextWatch ==
    \/ Discover(WatchListings)
    \/ ConnectOk
    \/ ReceiveUpTo(WatchFrames, MaxWatchEvents, MaxWatchEvents)
    \/ TgStart
    \/ TgPoll
    \/ TgNoDigest
    \/ TgSleep
    \/ DcStart
    \/ DcPoll
    \/ DcSleep

SpecWatch ==
    /\ Init
    /\ [][NextWatch]_vars
    /\ WF_vars(TgPoll) /\ WF_vars(TgNoDigest) /\ WF_vars(TgSleep)
    /\ WF_vars(DcPoll) /\ WF_vars(DcSleep)

\* SpecDigest: the ingestor and the Telegram watcher over MaxHours digest
\* periods and a little more
DigestFrames == {Single(Whale)}

NextDigest ==
    \/ Discover(WatchListings)
    \/ ConnectOk
    \/ ReceiveUpTo(DigestFrames, MaxDigestEvents, MaxDigestEvents)
    \/ Elapse(MaxHours * DIGEST_SECS + ClockStep)
    \/ TgStart
    \/ TgPoll
    \/ TgNoDigest
    \/ TgDigestQuery
    \/ TgDigestSent
    \/ TgSleep

SpecDigest == Init /\ [][NextDigest]_vars

\* ================================================================== claims
Rows == 1..Len(trades)

\* an element the handler decodes without raising anything: an object whose
\* price and size are numbers (or NaN) and whose asset id is a string
Clean(e) ==
    /\ e.obj
    /\ PriceRaw(e).k \in {"num", "nan"}
    /\ SizeRaw(e).k \in {"num", "nan"}
    /\ MarketId(e).k = "str"

CleanFrame(raw) ==
    raw.kind = "json" /\ \A k \in 1..Len(raw.elems) : Clean(raw.elems[k])

\* the rows made from element k of the frame handled last
RowsOf(k) == {i \in Rows : i > last.before /\ trades[i].arrival = last.base + k}

\* C1: every Trade row in the Store has usd_value >= MIN_TRADE_USD and
\* price > 0, whatever frames arrived.
C1_RowsPassTheFilter ==
    \A i \in Rows :
        /\ FGe(trades[i].usd_value, F(MIN_TRADE_USD))
        /\ FGt(trades[i].price, F(0))

FailsThenOk(c) ==
    /\ Len(c) >= 1
    /\ c[Len(c)] = "ok"
    /\ \A i \in 1..(Len(c) - 1) : c[i] = "fail"

C3_ReconnectResilience ==
    FailsThenOk(conns) =>
        /\ Len(attempt_at) = Len(conns)
        /\ \A i \in 1..(Len(conns) - 1) :
               attempt_at[i + 1] - attempt_at[i] = RECONNECT_DELAY
        /\ discoveries = 1
        /\ subs = {[payload |-> subscribe_payload, name_map |-> name_map]}
        /\ subscribe_payload = token_ids
        /\ (last.handled /\ Tag(last.raw) = "valid") =>
               /\ Len(trades) = last.before + 1
               /\ trades[Len(trades)].arrival = last.base + 1

C3_Witness ==
    /\ FailsThenOk(conns)
    /\ Len(conns) >= 2
    /\ pc = "subscribed"
    /\ last.handled
    /\ Tag(last.raw) = "valid"
    /\ Len(trades) = last.before + 1

\* C4: a connection that delivers a valid trade, then text that is no JSON,
\* then another valid trade has persisted exactly those two trades and is
\* still open.
C4_BadJsonBetweenTrades ==
    /\ stream = <<"valid", "badjson">> => pc = "subscribed" /\ Len(trades) = connBase + 1
    /\ stream = <<"valid", "badjson", "valid">> =>
           /\ pc = "subscribed"
           /\ Len(trades) = connBase + 2
           /\ trades[connBase + 1].arrival < trades[connBase + 2].arrival

C4_Witness ==
    /\ stream = <<"valid", "badjson", "valid">>
    /\ Len(trades) = connBase + 2
    /\ pc = "subscribed"

\* C5: no malformed frame (text that is no JSON, or a frame with an element
\* that is not a clean object) ends the receive loop.
Malformed(raw) == raw.kind = "badjson" \/ (raw.kind = "json" /\ ~CleanFrame(raw))

C5_MalformedNeverEndsLoop ==
    (last.handled /\ Malformed(last.raw)) => ~last.escaped

\* C6: insert_trade only appends, and every id it assigns is greater than
\* every id assigned before, across reconnects and restarts.
IsPrefix(a, b) == Len(a) <= Len(b) /\ SubSeq(b, 1, Len(a)) = a

C6_IdsIncreaseAppendOnly ==
    [][/\ IsPrefix(trades, trades')
       /\ \A i \in (Len(trades) + 1)..Len(trades') :
              /\ trades'[i].id > trade_seq
              /\ \A j \in 1..(i - 1) : trades'[j].id < trades'[i].id]_vars

C6_Witness ==
    /\ restarts >= 1
    /\ Len(conns) >= 2
    /\ connBase >= 1
    /\ Len(trades) > connBase
    /\ trades[Len(trades)].id = Len(trades)

\* C7: rows are in arrival order: of two rows, the one made from the element
\* that arrived first stands first and has the smaller id.
C7_PersistedInArrivalOrder ==
    \A i, j \in Rows :
        trades[i].arrival < trades[j].arrival => (i < j /\ trades[i].id < trades[j].id)

C7_Witness ==
    /\ last.handled
    /\ last.raw = Batch(<<AtMin, Above>>)
    /\ Len(trades) = 2
    /\ trades[1].arrival + 1 = trades[2].arrival

\* C8: after any upsert_market calls the markets table has exactly one row
\* for each token_id that was passed, carrying the name, volume_24h and
\* last_seen of the latest call for it, and no other row.
LastCall(token_id) ==
    calls[CHOOSE i \in 1..Len(calls) :
            /\ calls[i].token_id = token_id
            /\ \A j \in (i + 1)..Len(calls) : calls[j].token_id # token_id]

C8_UpsertLastWriteWins ==
    /\ \A c \in 1..Len(calls) :
           LET t    == calls[c].token_id
               rows == {i \in 1..Len(markets) : markets[i].token_id = t}
           IN  /\ Cardinality(rows) = 1
               /\ \A i \in rows :
                      /\ markets[i].name = LastCall(t).name
                      /\ markets[i].volume_24h = LastCall(t).volume
                      /\ markets[i].last_seen = LastCall(t).ts
    /\ \A i \in 1..Len(markets) :
           \E c \in 1..Len(calls) : calls[c].token_id = markets[i].token_id

C8_Witness ==
    /\ Len(calls) = 2
    /\ calls[1].token_id = calls[2].token_id
    /\ calls[1].volume # calls[2].volume
    /\ calls[1].ts < calls[2].ts
    /\ Len(markets) = 1
    /\ markets[1].volume_24h = calls[2].volume
    /\ markets[1].last_seen = calls[2].ts

\* the thresholds and bounds of the scorer, in model units
Usd(d)   == F(d * UsdScale)
Pct(c)   == F((c * PriceScale) \div 100)
Pts(h)   == (h * ScoreScale) \div 10
SizeLabels  == {"WHALE (>$10k)", "Large trade (>$2k)", "Mid trade (>$500)"}
PriceLabels == {"Late-stage sniper (price >=85c)",
                "Low-prob contrarian (price <=15c)"}

\* C9 as stated: the base score is 5.0 from 25,000, 4.0 from 10,000, 2.5 from
\* 2,000, 1.5 from 500 and 0.5 below, thresholds included.
C9_Original ==
    sc.done =>
        LET u == sc.usd_value
            b == sc.out.base
        IN  /\ FGe(u, Usd(25000)) => b = Pts(50)
            /\ (FGe(u, Usd(10000)) /\ ~FGe(u, Usd(25000))) => b = Pts(40)
            /\ (FGe(u, Usd(2000)) /\ ~FGe(u, Usd(10000))) => b = Pts(25)
            /\ (FGe(u, Usd(500)) /\ ~FGe(u, Usd(2000))) => b = Pts(15)
            /\ ~FGe(u, Usd(500)) => b = Pts(5)

\* C9 as amended: the base score is 5.0 from 10,000 (WHALE), 3.0 from 2,000
\* (Large trade), 1.5 from 500 (Mid trade) and 0.5 below with no label; the
\* thresholds are included and the first tier that matches wins, so 2000
\* scores 3.0, 1999.99 scores 1.5 and score(10000, 0.5) has base 5.0.
C9_SizeTiers ==
    sc.done =>
        LET u == sc.usd_value
            b == sc.out.base
            a == sc.out.alert
        IN  /\ FGe(u, Usd(10000)) => b = Pts(50) /\ a[1] = "WHALE (>$10k)"
            /\ (FGe(u, Usd(2000)) /\ ~FGe(u, Usd(10000))) =>
                   b = Pts(30) /\ a[1] = "Large trade (>$2k)"
            /\ (FGe(u, Usd(500)) /\ ~FGe(u, Usd(2000))) =>
                   b = Pts(15) /\ a[1] = "Mid trade (>$500)"
            /\ ~FGe(u, Usd(500)) => b = Pts(5) /\ a[1] \notin SizeLabels
            /\ u = F(Usd(2000).v - CentUnits) => b = Pts(15)
            /\ (u = Usd(10000) /\ sc.price = Pct(50)) => b = Pts(50)

C9_Witness ==
    /\ sc.done
    /\ sc.usd_value = Usd(2000)
    /\ sc.out.base = Pts(30)
    /\ sc.out.alert[1] = "Large trade (>$2k)"

\* C10 as stated: the score is the base plus 2.0 when price >= 0.85, plus
\* 1.5 when price <= 0.15, plus 0.5 when 0.45 <= price <= 0.55, plus nothing
\* otherwise.
C10_Original ==
    sc.done =>
        LET p == sc.price
            d == sc.out.score.v - sc.out.base
        IN  /\ FGe(p, Pct(85)) => d = Pts(20)
            /\ FLe(p, Pct(15)) => d = Pts(15)
            /\ (FGe(p, Pct(45)) /\ FLe(p, Pct(55))) => d = Pts(5)
            /\ (~FGe(p, Pct(85)) /\ ~FLe(p, Pct(15))
                  /\ ~(FGe(p, Pct(45)) /\ FLe(p, Pct(55)))) => d = 0

\* C10 as amended: the score is the base plus 2.0 (Late-stage sniper) when
\* price >= 0.85, plus 1.5 (Low-prob contrarian) when price <= 0.15, and the
\* base alone otherwise, prices around 0.5 included; the bounds are included
\* and the price label comes last.
C10_PriceModifiers ==
    sc.done =>
        LET p == sc.price
            d == sc.out.score.v - sc.out.base
            a == sc.out.alert
        IN  /\ ~sc.out.score.nan
            /\ FGe(p, Pct(85)) =>
                   d = Pts(20) /\ a[Len(a)] = "Late-stage sniper (price >=85c)"
            /\ FLe(p, Pct(15)) =>
                   d = Pts(15) /\ a[Len(a)] = "Low-prob contrarian (price <=15c)"
            /\ (~FGe(p, Pct(85)) /\ ~FLe(p, Pct(15))) =>
                   d = 0 /\ a[Len(a)] \notin PriceLabels

C10_Witness ==
    /\ sc.done
    /\ sc.price = Pct(85)
    /\ sc.usd_value = Usd(10000)
    /\ sc.out.score = F(Pts(70))
    /\ sc.out.base = Pts(50)

\* C11: for every usd_value >= 0 and price in (0, 1] score_trade returns a
\* score between 0.5 and 7.0, and a second call on the same arguments returns
\* the same score and the same alert text as the first.
InScorerDomain ==
    /\ FGe(sc.usd_value, F(0))
    /\ FGt(sc.price, F(0))
    /\ FLe(sc.price, F(PriceScale))

WhaleSniperAlert == <<"WHALE (>$10k)", " | ", "Late-stage sniper (price >=85c)">>

\* C12 as stated: the event {type: "trade", asset_id: "T1", price: 0.90,
\* size: 12000, side: "BUY"} persists exactly one Trade with usd_value
\* 10800.00, outcome "YES", score 6.0 and an alert holding both labels.
C12_Original ==
    (last.handled /\ last.raw = Single(Whale)) =>
        /\ Len(trades) = last.before + 1
        /\ LET t == trades[Len(trades)]
           IN  /\ t.usd_value = Usd(10800)
               /\ t.outcome = "YES"
               /\ t.score = F(Pts(60))
               /\ t.alert = WhaleSniperAlert

\* C12 as amended: that event persists exactly one Trade with market_id
\* "T1", price 0.90, size 12000, side "BUY", usd_value 10800.00, outcome
\* "YES", score 7.0 (5.0 for the whale tier plus 2.0 for the late-stage
\* sniper) and the alert "WHALE (>$10k) | Late-stage sniper (price >=85c)".
C12_WhaleTradeEndToEnd ==
    (last.handled /\ last.raw = Single(Whale)) =>
        /\ ~last.escaped
        /\ Len(trades) = last.before + 1
        /\ LET t == trades[Len(trades)]
           IN  /\ t.market_id = T1
               /\ t.price = Pct(90)
               /\ t.size = F(12000 * SizeScale)
               /\ t.side = "BUY"
               /\ t.usd_value = Usd(10800)
               /\ t.outcome = "YES"
               /\ t.score = F(Pts(70))
               /\ t.alert = WhaleSniperAlert
               /\ t.arrival = last.base + 1

C12_Witness ==
    /\ last.handled
    /\ last.raw = Single(Whale)
    /\ pc = "subscribed"
    /\ Len(trades) = 2
    /\ trades[2].usd_value = Usd(10800)
    /\ trades[2].score = F(Pts(70))
    /\ trades[2].market_name = Q1

\* C13: run_sonar is in its connect/subscribe/receive loop only with a
\* subscription that names at least one token; a discovery that fails or
\* finds no token ends the process before any connection attempt.
InLoop == pc \in {"connecting", "subscribed", "disconnected"}

C13_NoLoopWithoutMarkets ==
    /\ InLoop => (token_ids # <<>> /\ subscribe_payload # <<>>)
    /\ (pc = "crashed" \/ pc = "discovering") => conns = <<>>

\* C14: after an established connection is lost, in whatever way, the next
\* connection attempt comes no sooner than RECONNECT_DELAY later.
C14_BackoffAfterEveryLoss ==
    \A i \in 1..(Len(conns) - 1) :
        conns[i] = "ok" => attempt_at[i + 1] >= attempt_at[i] + RECONNECT_DELAY

\* C15: once discovery has succeeded run_sonar stays in its loop: whatever
\* ends a connection or an attempt (a failed attempt, a lost connection, an
\* exception raised while connected, a failing Store write included) leads
\* to the sleep and then to another connection attempt, failure after
\* failure, as long as the bounds of the model leave room for one.
C15_NeverGivesUp ==
    /\ [][InLoop => InLoop']_vars
    /\ (pc = "disconnected" /\ now + RECONNECT_DELAY <= MaxTime) ~> pc = "connecting"
    /\ \A n \in 0..(MaxAttempts - 1) :
           (pc = "connecting" /\ Len(conns) = n) ~> Len(conns) > n
    /\ \A n \in 1..(MaxAttempts - 1) :
           (pc = "disconnected" /\ Len(conns) = n /\ now + RECONNECT_DELAY <= MaxTime)
               ~> Len(conns) > n

C15_Witness ==
    /\ Len(conns) = 2
    /\ conns[1] = "ok"
    /\ conns[2] = "fail"
    /\ attempt_at[2] = attempt_at[1] + RECONNECT_DELAY
    /\ pc = "connecting"
    /\ now = attempt_at[2] + RECONNECT_DELAY
    /\ evCount = 1
    /\ trades = <<>>

\* the step that handles the probe, and the text of the probe (line 161)
PingStep  == stream' = Append(stream, "ping")
ProbeText == "ping"

\* C16 as stated: each probe is answered with exactly one reply that is the
\* text of the probe, and nothing else changes.
C16_Original ==
    [][PingStep =>
         /\ ws_sent' = Append(ws_sent, ProbeText)
         /\ pc' = pc
         /\ UNCHANGED <<storeVars, runVars>>]_vars

\* C16 as amended: each probe "ping" is answered with exactly one reply, the
\* text "pong"; the probe is not decoded as JSON, ends nothing, persists no
\* Trade and leaves the tables, the subscription and the name map as they are.
C16_PingAnsweredWithPong ==
    [][PingStep =>
         /\ ws_sent' = Append(ws_sent, "pong")
         /\ Len(ws_sent') = Len(ws_sent) + 1
         /\ pc' = "subscribed"
         /\ ~last'.escaped
         /\ evCount' = evCount
         /\ UNCHANGED <<storeVars, runVars, now, connHist, discoveries, listing>>]_vars

C16_Witness ==
    /\ last.handled
    /\ last.raw = Ping
    /\ pc = "subscribed"
    /\ Len(ws_sent) = 2
    /\ ws_sent[2] = "pong"
    /\ Len(trades) = 1
    /\ stream = <<"valid", "ping">>

\* the step in which fetch_top_markets runs
DiscoverStep == discoveries' = discoveries + 1

\* the list a clobTokenIds string encodes: the runs of text between quotes
RECURSIVE Quoted(_, _, _, _)
Quoted(text, i, cur, inside) ==
    IF i > Len(text) THEN <<>>
    ELSE IF text[i] = "\"" THEN
        IF inside THEN <<cur>> \o Quoted(text, i + 1, <<>>, FALSE)
        ELSE Quoted(text, i + 1, <<>>, TRUE)
    ELSE Quoted(text, i + 1, IF inside THEN Append(cur, text[i]) ELSE cur, inside)

Parseable(text) == text # <<>> /\ text[1] = "[" /\ text[Len(text)] = "]"

ListForm(m) ==
    IF m.clobTokenIds.k = "str" /\ Parseable(m.clobTokenIds.text)
    THEN [m EXCEPT !.clobTokenIds = ClobList(Quoted(m.clobTokenIds.text, 1, <<>>, FALSE))]
    ELSE m

ListFormOf(resp) ==
    [ok |-> resp.ok, markets |-> [i \in 1..Len(resp.markets) |-> ListForm(resp.markets[i])]]

HasStringForm(resp) ==
    \E i \in 1..Len(resp.markets) :
        /\ resp.markets[i].clobTokenIds.k = "str"
        /\ Parseable(resp.markets[i].clobTokenIds.text)

\* C17: a listing in which a market's clobTokenIds is a string encoding the
\* list gives the token ids, the name map and the markets rows that the same
\* listing gives with the list written out.
C17_StringFormAccepted ==
    [][(DiscoverStep /\ listing'.ok /\ HasStringForm(listing')) =>
         LET r == fetch_top_markets(ListFormOf(listing'), markets, now)
         IN  /\ pc' = "connecting"
             /\ token_ids' = r.token_ids
             /\ name_map' = r.name_map
             /\ markets' = r.markets]_vars

\* a market whose token list is absent, null, empty or does not parse
Skipped(m) ==
    LET c == m.clobTokenIds
    IN  \/ c.k \in {"absent", "null"}
        \/ c.k = "list" /\ c.toks = <<>>
        \/ c.k = "str" /\ ~Parseable(c.text)

Kept(m) == ~Skipped(m)

WithoutSkipped(resp) == [ok |-> resp.ok, markets |-> SelectSeq(resp.markets, Kept)]

\* C18: a listing (of at most TOP_N_MARKETS markets) with markets whose token
\* list is absent, null, empty or unparseable gives what the listing without
\* those markets gives, and discovery does not fail.
C18_BadTokenFieldSkipped ==
    [][(/\ DiscoverStep
        /\ listing'.ok
        /\ Len(listing'.markets) <= TOP_N_MARKETS
        /\ \E i \in 1..Len(listing'.markets) : Skipped(listing'.markets[i])) =>
         LET r == fetch_top_markets(WithoutSkipped(listing'), markets, now)
         IN  /\ pc' = "connecting"
             /\ token_ids' = r.token_ids
             /\ name_map' = r.name_map
             /\ markets' = r.markets]_vars

\* a listing whose markets all carry their tokens as a list, or carry none
ListsOnly(resp) ==
    \A i \in 1..Len(resp.markets) : resp.markets[i].clobTokenIds.k \in {"list", "absent"}

FirstTwo(m) == [m EXCEPT !.clobTokenIds = ClobList(Take(m.clobTokenIds.toks, 2))]

\* the first TOP_N_MARKETS markets that have tokens, two tokens of each
FirstQualifying(resp) ==
    LET q == SelectSeq(resp.markets, Kept)
    IN  [ok |-> resp.ok,
         markets |-> [i \in 1..Len(Take(q, TOP_N_MARKETS)) |-> FirstTwo(q[i])]]

\* C19: fetch_top_markets registers the first TOP_N_MARKETS markets of the
\* listing that have tokens (one without tokens takes no slot), two tokens
\* for each under the same name, so at most 2 * TOP_N_MARKETS token ids.
C19_FirstNQualifying ==
    [][(DiscoverStep /\ listing'.ok /\ ListsOnly(listing')) =>
         LET r == fetch_top_markets(FirstQualifying(listing'), markets, now)
         IN  /\ pc' = "connecting"
             /\ token_ids' = r.token_ids
             /\ name_map' = r.name_map
             /\ markets' = r.markets
             /\ Len(token_ids') <= 2 * TOP_N_MARKETS]_vars

\* C20: no Trade row has a price above 1 or a price of 0 or less, whatever
\* the size of the event it was made from.
C20_PriceInUnitInterval ==
    \A i \in Rows :
        /\ ~FGt(trades[i].price, F(PriceScale))
        /\ ~FLe(trades[i].price, F(0))

\* C21: every Trade row has size > 0: an element whose size is missing,
\* zero or negative makes no row, whatever its price.
C21_SizePositive ==
    \A i \in Rows : FGt(trades[i].size, F(0))

\* the step that handles a frame
ReceiveStep == Len(stream') = Len(stream) + 1

\* the same element with its type under the other field name
Twin(e) == [e EXCEPT !.event_type = e.type, !.type = e.event_type]

TwinFrame(raw) ==
    [raw EXCEPT !.elems = [k \in 1..Len(raw.elems) |->
                             IF raw.elems[k].obj THEN Twin(raw.elems[k])
                             ELSE raw.elems[k]]]

\* a bare value as the one-element list holding it, and the reverse
Rewrapped(raw) ==
    IF raw.kind = "json" /\ Len(raw.elems) = 1
    THEN [raw EXCEPT !.isList = ~raw.isList]
    ELSE raw

\* what handling the frame raw in the place of the received one gives
Handled(raw) ==
    HandleMessage(raw, [trades |-> trades, seq |-> trade_seq], name_map, now, evCount)

\* C22: an element makes a row only when its type is price_change,
\* last_trade_price or trade; an object of any other type is dropped with no
\* row and no error, whatever else it holds; a frame is handled the same
\* with the type under event_type or under type, and a bare object the same
\* as the one-element list holding it.
C22_RecognizedTypesOnly ==
    [][(ReceiveStep /\ last'.raw.kind = "json") =>
         LET raw == last'.raw
             new == {i \in 1..Len(trades') : i > Len(trades)}
         IN  /\ \A i \in new :
                    EventType(raw.elems[trades'[i].arrival - evCount]) \in RecognizedTypes
             /\ (\A k \in 1..Len(raw.elems) :
                     raw.elems[k].obj /\ EventType(raw.elems[k]) \notin RecognizedTypes) =>
                    (trades' = trades /\ ~last'.escaped /\ pc' = "subscribed")
             /\ trades' = Handled(TwinFrame(raw)).db.trades
             /\ last'.escaped = Handled(TwinFrame(raw)).escaped
             /\ trades' = Handled(Rewrapped(raw)).db.trades
             /\ last'.escaped = Handled(Rewrapped(raw)).escaped]_vars

C22_Witness ==
    /\ last.handled
    /\ last.raw = Single(ByType)
    /\ pc = "subscribed"
    /\ Len(trades) = last.before + 1
    /\ trades[Len(trades)].market_id = LongId
    /\ trades[Len(trades)].market_name = Take(LongId, 16)
    /\ trades[Len(trades)].side = "UNKNOWN"
    /\ \E j \in 1..Len(stream) : stream[j] = "other"

\* C23: the outcome of a Trade row is "YES" when its price is above 0.5 and
\* "NO" otherwise, 0.5 itself included; the side and the token play no part.
C23_OutcomeFromPrice ==
    /\ \A i \in Rows :
           /\ trades[i].outcome \in {"YES", "NO"}
           /\ trades[i].outcome = "YES" <=> FGt(trades[i].price, Pct(50))
    /\ (last.handled /\ CleanFrame(last.raw)) =>
           \A k \in 1..Len(last.raw.elems) : \A i \in RowsOf(k) :
               trades[i].outcome = "YES" <=>
                   FGt(PyFloat(PriceRaw(last.raw.elems[k])), Pct(50))

C23_Witness ==
    /\ Len(trades) = 2
    /\ trades[1].price = Pct(90) /\ trades[1].outcome = "YES"
    /\ trades[2].price = Pct(50) /\ trades[2].outcome = "NO"
    /\ trades[1].side = trades[2].side
    /\ trades[1].market_id = trades[2].market_id

\* the label each rule gives, read off the thresholds
SizeLabelFor(u) ==
    IF FGe(u, Usd(10000)) THEN <<"WHALE (>$10k)">>
    ELSE IF FGe(u, Usd(2000)) THEN <<"Large trade (>$2k)">>
    ELSE IF FGe(u, Usd(500)) THEN <<"Mid trade (>$500)">>
    ELSE <<>>

PriceLabelFor(p) ==
    IF FGe(p, Pct(85)) THEN <<"Late-stage sniper (price >=85c)">>
    ELSE IF FLe(p, Pct(15)) THEN <<"Low-prob contrarian (price <=15c)">>
    ELSE <<>>

\* C24: the alert is the size label, then " | ", then the price label when
\* both rules fired, the one label when one did, and "Standard trade" exactly
\* when none did; it is never empty.
C24_AlertText ==
    sc.done =>
        LET sl == SizeLabelFor(sc.usd_value)
            pl == PriceLabelFor(sc.price)
            a  == sc.out.alert
        IN  /\ a # <<>>
            /\ (sl # <<>> /\ pl # <<>>) => a = <<sl[1], " | ", pl[1]>>
            /\ (sl # <<>> /\ pl = <<>>) => a = sl
            /\ (sl = <<>> /\ pl # <<>>) => a = pl
            /\ (sl = <<>> /\ pl = <<>>) <=> a = <<"Standard trade">>

C24_Witness ==
    /\ sc.done
    /\ sc.usd_value = Usd(500)
    /\ sc.price = Pct(15)
    /\ sc.out.alert = <<"Mid trade (>$500)", " | ", "Low-prob contrarian (price <=15c)">>

\* C25: cancelling run_sonar stops it between frames: from the cancellation
\* on no Trade is persisted, nothing is sent, and neither the sleep of the
\* reconnect path nor a connection attempt follows.
C25_CancellationStops ==
    [][cancelled' =>
         /\ pc' = "cancelled"
         /\ UNCHANGED <<storeVars, ws_sent, now, connHist, evCount, stream, last>>]_vars

C25_Witness ==
    /\ cancelled
    /\ pc = "cancelled"
    /\ conns = <<"ok">>
    /\ last.handled
    /\ Tag(last.raw) = "valid"
    /\ Len(trades) = 1
    /\ now + RECONNECT_DELAY <= MaxTime

\* an element on which float() raises ValueError, which line 205 catches
RaisesCaught(e) ==
    /\ e.obj
    /\ EventType(e) \in RecognizedTypes
    /\ \/ FloatExc(PriceRaw(e)) = "ValueError"
       \/ FloatExc(PriceRaw(e)) = "none" /\ FloatExc(SizeRaw(e)) = "ValueError"

\* C26: in a batch whose element k is the first to raise, and raises a caught
\* error, the elements before k that pass the filter have their rows, k and
\* every element after it have none, and the connection stays open for the
\* next frame.
C26_BatchCutAtCaughtError ==
    (last.handled /\ last.raw.kind = "json" /\ last.raw.isList) =>
        \A k \in 1..Len(last.raw.elems) :
            (/\ RaisesCaught(last.raw.elems[k])
             /\ \A j \in 1..(k - 1) : Clean(last.raw.elems[j])) =>
                /\ ~last.escaped
                /\ pc = "subscribed"
                /\ \A j \in 1..(k - 1) :
                       Cardinality(RowsOf(j)) =
                           IF IsAcceptable(last.raw.elems[j]) THEN 1 ELSE 0
                /\ \A j \in k..Len(last.raw.elems) : RowsOf(j) = {}

C26_Witness ==
    /\ conns = <<"ok">>
    /\ stream = <<"other", "valid">>
    /\ evCount = 3
    /\ Len(trades) = 2
    /\ trades[1].arrival = 1
    /\ trades[2].arrival = 3
    /\ pc = "subscribed"

\* C27: the score and the alert of every Trade row are those score_trade
\* gives for the usd_value and the price of the row.
C27_StoredScoreMatchesStoredValue ==
    \A i \in Rows :
        LET again == score_trade(trades[i].usd_value, trades[i].price)
        IN  /\ trades[i].score = again.score
            /\ trades[i].alert = again.alert

\* the row of the trades table with the given id
RowOf(id) == CHOOSE row \in {trades[i] : i \in 1..Len(trades)} : row.id = id

\* the ids a watcher handed to its sender: each above the watcher's seed, each
\* of a row that passes both thresholds, none twice
AlertedRight(w) ==
    /\ \A i \in 1..Len(w.sent) :
          /\ w.sent[i] > w.seed
          /\ \E k \in 1..Len(trades) : trades[k].id = w.sent[i]
          /\ FGe(RowOf(w.sent[i]).score, F(MIN_SCORE))
          /\ FGe(RowOf(w.sent[i]).usd_value, F(MIN_USD))
    /\ \A i, j \in 1..Len(w.sent) : i # j => w.sent[i] # w.sent[j]

\* C28: in both watchers, however their polls interleave with the ingestor's
\* inserts: once seeded to MAX(id), last_seen_id never decreases; only trades
\* with id above the seed, score >= MIN_SCORE and usd_value >= MIN_USD are
\* handed to the sender; and no trade id is handed to the same sender twice.
C28_WatchersAlertOnce ==
    /\ [](AlertedRight(tg) /\ AlertedRight(dc))
    /\ [][/\ tg.pc # "off" => tg'.last_seen_id >= tg.last_seen_id
          /\ dc.pc # "off" => dc'.last_seen_id >= dc.last_seen_id
          /\ tg.pc # "off" => tg'.seed = tg.seed
          /\ dc.pc # "off" => dc'.seed = dc.seed]_vars

\* both watchers started after a first alertable trade, which neither
\* handed on, and each handed on the 21 alertable trades of the later batch
\* and not the small trade in its middle
C28_Witness ==
    /\ tg.seed = 1 /\ dc.seed = 1
    /\ Len(trades) = 23
    /\ Qualifies(trades[1])
    /\ ~Qualifies(trades[12])
    /\ Len(tg.sent) = 21 /\ Len(dc.sent) = 21

\* the qualifying rows committed after the Telegram watcher's seeding
TgDue == {i \in 1..Len(trades) : trades[i].id > tg.seed /\ Qualifies(trades[i])}

\* the step of the Telegram watcher's poll
TgPollStep == tg.pc = "poll" /\ tg'.pc = "check"

\* C29: the Telegram watcher's poll returns at most 20 rows per call and moves
\* last_seen_id only to the id of the last row it returned, so that no
\* qualifying trade is skipped: every trade committed after seeding with
\* score >= MIN_SCORE and usd_value >= MIN_USD is eventually handed to
\* send_message, in ascending id order, also when more than 20 of them
\* accumulate between two polls.
C29_NoQualifyingTradeSkipped ==
    /\ [][TgPollStep =>
            /\ Len(tg'.sent) - Len(tg.sent) <= 20
            /\ tg'.last_seen_id = IF Len(tg'.sent) > Len(tg.sent)
                                  THEN tg'.sent[Len(tg'.sent)]
                                  ELSE tg.last_seen_id]_vars
    /\ [](\A i \in TgDue : trades[i].id <= tg.last_seen_id =>
              \E k \in 1..Len(tg.sent) : tg.sent[k] = trades[i].id)
    /\ [](\A i, j \in 1..Len(tg.sent) : i < j => tg.sent[i] < tg.sent[j])
    /\ (tg.pc # "off") ~>
           (\A i \in TgDue : \E k \in 1..Len(tg.sent) : tg.sent[k] = trades[i].id)

\* a poll returned 20 rows and a qualifying row is still waiting: more than
\* 20 had accumulated
C29_Witness ==
    /\ tg.pc = "check"
    /\ Len(tg.sent) = 20
    /\ \E i \in TgDue : trades[i].id > tg.last_seen_id

\* the digests that counted the row with the given id
DigestsOf(id) == {d \in 1..Len(tg.counted) : id \in tg.counted[d]}

\* C30: the Telegram watcher's digests partition the trade log: every trade
\* persisted after the watcher started is counted in exactly one digest, each
\* digest covering the trades since the one before: no trade is counted
\* twice, and a trade older than last_digest, which no later digest will
\* count, has been counted once; however the ingestor's inserts interleave
\* with the digest's query and the update of last_digest that follows it.
C30_DigestsPartitionTrades ==
    \A i \in 1..Len(trades) :
        trades[i].id > tg.seed =>
            /\ Cardinality(DigestsOf(trades[i].id)) <= 1
            /\ trades[i].timestamp < tg.last_digest =>
                   Cardinality(DigestsOf(trades[i].id)) = 1

====
